---------------------------- MODULE Spec2Model ----------------------------
(***************************************************************************)
(* Model of badgeware-slideshow: the media converter                       *)
(* (src/scripts/convert_media.py) working on a library of playlists, and   *)
(* the enumeration the playback application (src/app/__init__.py) makes of *)
(* the same library.                                                       *)
(*                                                                         *)
(* A file or directory name is a sequence of one-character strings, so    *)
(* that "a" + "_1" and a file that is really called "a_1" are the same     *)
(* name, as they are on disk.                                              *)
(***************************************************************************)
EXTENDS Integers, Sequences, FiniteSets, TLC

(***************************************************************************)
(* Bounds of the model.                                                    *)
(***************************************************************************)
\* most frames of a GIF, and most frames the transcoder emits
MaxFrames == 2
\* most entries of the first playlist in the initial library
MaxEntries == 2
\* most runs of the batch tool
MaxRuns == 2
\* most interruptions (kill) over all runs
MaxKills == 1
\* largest numerator / denominator of a probed r_frame_rate
MaxNum == 40
MaxDen == 3
\* most names already present when the naming resolver is called alone
MaxTaken == 3
MaxSide == 24
MaxRoot == 3
MaxLines == 2
MaxEmitted == 12

(***************************************************************************)
(* Program constants.                                                      *)
(***************************************************************************)
DISPLAY_WIDTH == 320
DISPLAY_HEIGHT == 240
\* fps = 10 (default), min(fps, 15), int(1000 / target_fps)
DefaultFps == 10
FpsCap == 15
MsPerSecond == 1000
\* img.info.get("duration", 100)
DefaultDelay == 100
\* read_meta: delay_ms = 100
PlayerDefaultDelay == 100
\* the first frame number wider than the transcoder's pattern frame_%03d.png
PadOverflow == 1000
\* the fraction bits of a Python float (an IEEE double), as in target_w / img_w
MantissaBits == 52

SUPPORTED_IMAGES ==
    { <<".", "j", "p", "g">>, <<".", "j", "p", "e", "g">>, <<".", "p", "n", "g">>,
      <<".", "b", "m", "p">>, <<".", "w", "e", "b", "p">> }
SUPPORTED_GIFS == { <<".", "g", "i", "f">> }
SUPPORTED_VIDEOS ==
    { <<".", "m", "p", "4">>, <<".", "a", "v", "i">>, <<".", "m", "o", "v">>,
      <<".", "w", "e", "b", "m">>, <<".", "m", "k", "v">> }
ALL_SUPPORTED == SUPPORTED_IMAGES \cup SUPPORTED_GIFS \cup SUPPORTED_VIDEOS

PNG_EXT == <<".", "p", "n", "g">>
FRAME_PREFIX == <<"f", "r", "a", "m", "e", "_">>
META_TXT == <<"m", "e", "t", "a", ".", "t", "x", "t">>
JPG_EXT == <<".", "j", "p", "g">>

(***************************************************************************)
(* Strings: code points, lower(), str(int), comparison, suffix and stem.   *)
(***************************************************************************)
\* ord(c) for the characters the model's names use
Ord(c) ==
    CASE c = "." -> 46
      [] c = "0" -> 48 [] c = "1" -> 49 [] c = "2" -> 50 [] c = "3" -> 51
      [] c = "4" -> 52 [] c = "5" -> 53 [] c = "6" -> 54 [] c = "7" -> 55
      [] c = "8" -> 56 [] c = "9" -> 57
      [] c = "G" -> 71 [] c = "J" -> 74 [] c = "N" -> 78 [] c = "P" -> 80
      [] c = "_" -> 95
      [] c = "a" -> 97 [] c = "b" -> 98 [] c = "c" -> 99 [] c = "d" -> 100
      [] c = "e" -> 101 [] c = "f" -> 102 [] c = "g" -> 103 [] c = "h" -> 104
      [] c = "i" -> 105 [] c = "j" -> 106 [] c = "k" -> 107 [] c = "m" -> 109
      [] c = "n" -> 110 [] c = "o" -> 111 [] c = "p" -> 112 [] c = "r" -> 114
      [] c = "t" -> 116 [] c = "v" -> 118 [] c = "w" -> 119 [] c = "x" -> 120

\* str.lower() on one character
LowerChar(c) ==
    CASE c = "G" -> "g" [] c = "J" -> "j" [] c = "N" -> "n" [] c = "P" -> "p"
      [] OTHER -> c

Lower(s) == [i \in 1..Len(s) |-> LowerChar(s[i])]

DigitChar(d) ==
    CASE d = 0 -> "0" [] d = 1 -> "1" [] d = 2 -> "2" [] d = 3 -> "3"
      [] d = 4 -> "4" [] d = 5 -> "5" [] d = 6 -> "6" [] d = 7 -> "7"
      [] d = 8 -> "8" [] d = 9 -> "9"

\* str(k) for k >= 0, as the f-strings format the counter
RECURSIVE Str(_)
Str(k) == IF k < 10 THEN <<DigitChar(k)>> ELSE Str(k \div 10) \o <<DigitChar(k % 10)>>

\* s < t for Python strings (code point order, a proper prefix is smaller)
RECURSIVE StrLess(_, _)
StrLess(s, t) ==
    IF t = <<>> THEN FALSE
    ELSE IF s = <<>> THEN TRUE
    ELSE IF Ord(Head(s)) # Ord(Head(t)) THEN Ord(Head(s)) < Ord(Head(t))
    ELSE StrLess(Tail(s), Tail(t))

\* sorted(S) for a finite set of strings
RECURSIVE Sorted(_)
Sorted(S) ==
    IF S = {} THEN <<>>
    ELSE LET m == CHOOSE x \in S : \A y \in S \ {x} : StrLess(x, y)
         IN  <<m>> \o Sorted(S \ {m})

StartsWith(s, p) == Len(s) >= Len(p) /\ SubSeq(s, 1, Len(p)) = p
EndsWith(s, p) == Len(s) >= Len(p) /\ SubSeq(s, Len(s) - Len(p) + 1, Len(s)) = p

\* position of the dot that starts the extension, 0 when there is none: the last
\* dot that has a character other than a dot somewhere before it
ExtDot(name) ==
    LET dots == { i \in 1..Len(name) :
                    /\ name[i] = "."
                    /\ \E j \in 1..(i - 1) : name[j] # "." }
    IN  IF dots = {} THEN 0 ELSE CHOOSE i \in dots : \A j \in dots : j <= i

\* os.path.splitext(path): <<base, ext>>
splitext(path) ==
    LET d == ExtDot(path)
    IN  IF d = 0 THEN <<path, <<>> >>
        ELSE <<SubSeq(path, 1, d - 1), SubSeq(path, d, Len(path))>>

\* Path(p).suffix and Path(p).stem (a trailing dot gives no suffix)
Suffix(name) ==
    LET d == ExtDot(name)
    IN  IF d = 0 \/ d = Len(name) THEN <<>> ELSE SubSeq(name, d, Len(name))

Stem(name) == SubSeq(name, 1, Len(name) - Len(Suffix(name)))


(***************************************************************************)
(* The data on disk.  A directory is a function from the names in it to    *)
(* nodes.  A file node carries what decoding it yields; a directory node   *)
(* carries its frame files and its meta.txt.                               *)
(*   fmt    the encoding the decoder reports (Image.format), "VIDEO" for a *)
(*          video container, "DATA" for a file no decoder reads            *)
(*   w, h   the size the decoder reports                                   *)
(*   n      n_frames; for a video, the frames the transcoder emits         *)
(*   badAt  the first frame that fails to decode: 0 when Image.open        *)
(*          itself raises, n when every frame decodes; for a video, 0 when *)
(*          the transcoder exits with a failure status                     *)
(*   dur    img.info["duration"], -1 when absent                           *)
(*   probe  what ffprobe reports: <<kind, num, den>>                       *)
(*   id     identity of an original file (0 for what the converter wrote)  *)
(*   src    <<id of the source it was converted from, frame index>>        *)
(***************************************************************************)
NoProbe == <<"none", 0, 0>>

File(fmt, w, h, n, badAt, dur, probe, id) ==
    [kind |-> "file", fmt |-> fmt, w |-> w, h |-> h, n |-> n, badAt |-> badAt,
     dur |-> dur, probe |-> probe, id |-> id, src |-> <<0, 0>>]

\* what save_png writes: an RGB PNG of the image's size
PngOf(img, src) ==
    [kind |-> "file", fmt |-> "PNG", w |-> img.w, h |-> img.h, n |-> 1, badAt |-> 1,
     dur |-> -1, probe |-> NoProbe, id |-> 0, src |-> src]

\* meta.txt: absent, created and still empty, or holding its two lines
NoMeta == [st |-> "none", frame_count |-> 0, delay_ms |-> 0]
EmptyMeta == [st |-> "empty", frame_count |-> 0, delay_ms |-> 0]
Meta(fc, d) == [st |-> "full", frame_count |-> fc, delay_ms |-> d]

\* a directory node: files maps the name of each file in it other than
\* meta.txt to <<id of the source it was made from, that source's frame>>
Dir(files, meta, id, src) ==
    [kind |-> "dir", files |-> files, meta |-> meta, id |-> id, src |-> src]

EmptyFn == [x \in {} |-> 0]

\* the directory d with name bound to node / with name removed
Put(d, name, node) ==
    [x \in DOMAIN d \cup {name} |-> IF x = name THEN node ELSE d[x]]

Remove(d, name) == [x \in DOMAIN d \ {name} |-> d[x]]

\* os.path.exists / os.path.isdir in directory d
exists(d, name) == name \in DOMAIN d

isdir(d, name) == name \in DOMAIN d /\ d[name].kind = "dir"

(***************************************************************************)
(* Pure functions of convert_media.py.                                     *)
(***************************************************************************)
\* Image.open(path) raises
OpenRaises(node) == node.fmt \in {"VIDEO", "DATA"} \/ node.badAt = 0

\* Floats are IEEE doubles: a division and a product are each the real
\* result rounded to the nearest double.  The operators below compute
\* int(d * (n / m)) for small positive integers from that rule, in integers.
\* floor(log2(n / m)) for n, m >= 1
RECURSIVE FloorLog2(_, _)
FloorLog2(n, m) ==
    IF n >= m THEN (IF n >= 2 * m THEN 1 + FloorLog2(n, 2 * m) ELSE 0)
    ELSE FloorLog2(2 * n, m) - 1

\* 2^k for k >= 0, and 2^k mod m
RECURSIVE Pow2(_)
Pow2(k) == IF k = 0 THEN 1 ELSE 2 * Pow2(k - 1)

RECURSIVE Pow2Mod(_, _)
Pow2Mod(k, m) == IF k = 0 THEN 1 % m ELSE (2 * Pow2Mod(k - 1, m)) % m

RECURSIVE IsPow2(_)
IsPow2(n) == IF n = 1 THEN TRUE ELSE IF n % 2 = 1 THEN FALSE ELSE IsPow2(n \div 2)

\* int(d * scale) where scale is the double n / m.  With n / m = M / 2^k
\* rounded to a mantissa M of MantissaBits + 1 bits, d * scale is
\* d*n/m - d*r/(m * 2^k) for r = n * 2^k - m * M rounded again.  When d*n/m
\* is no integer the rounding cannot cross an integer; when it is the
\* integer N, the product rounds below N exactly when r > 0 and d*r/(m*2^k)
\* exceeds half the gap between N and the double before it.
FloatScaledInt(d, n, m) ==
    IF (d * n) % m # 0 THEN (d * n) \div m
    ELSE LET N    == (d * n) \div m
             eq   == FloorLog2(n, m)
             k    == MantissaBits - eq
             rem  == ((n % m) * Pow2Mod(k, m)) % m
             r    == IF 2 * rem < m THEN rem ELSE rem - m
             x    == FloorLog2(N, 1) - eq - 1 - (IF IsPow2(N) THEN 1 ELSE 0)
             lhs  == IF x >= 0 THEN d * r ELSE d * r * Pow2(-x)
             rhs  == IF x >= 0 THEN m * Pow2(x) ELSE m
         IN  IF r <= 0 \/ lhs <= rhs THEN N ELSE N - 1

\* scale = min(target_w / img_w, target_h / img_h), as the division <<n, m>>
\* whose quotient it is
LetterboxScale(img_w, img_h, target_w, target_h) ==
    IF target_w * img_h <= target_h * img_w THEN <<target_w, img_w>>
    ELSE <<target_h, img_h>>

\* as letterbox, returning the resized image instead of the canvas
letterbox_ReturnsResized(img, target_w, target_h) ==
    LET scale == LetterboxScale(img.w, img.h, target_w, target_h)
        new_w == FloatScaledInt(img.w, scale[1], scale[2])
        new_h == FloatScaledInt(img.h, scale[1], scale[2])
    IN  [w |-> new_w, h |-> new_h, new_w |-> new_w, new_h |-> new_h,
         offset_x |-> 0, offset_y |-> 0]

\* letterbox(img, target_w, target_h): the canvas and where the content lies
letterbox(img, target_w, target_h) ==
    LET scale == LetterboxScale(img.w, img.h, target_w, target_h)
        new_w == FloatScaledInt(img.w, scale[1], scale[2])
        new_h == FloatScaledInt(img.h, scale[1], scale[2])
    IN  [w |-> target_w, h |-> target_h, new_w |-> new_w, new_h |-> new_h,
         offset_x |-> (target_w - new_w) \div 2,
         offset_y |-> (target_h - new_h) \div 2]

is_badge_ready_png(node) ==
    IF OpenRaises(node) THEN FALSE
    ELSE IF node.fmt # "PNG" THEN FALSE
    ELSE IF <<node.w, node.h>> # <<DISPLAY_WIDTH, DISPLAY_HEIGHT>> THEN FALSE
    ELSE TRUE

\* as FirstFree, with the existence of base_counter checked once, not in a loop
FirstFree_NoLoop(d, base, ext, counter) ==
    IF exists(d, base \o <<"_">> \o Str(counter) \o ext) THEN counter + 1 ELSE counter

\* the while loop of unique_path and unique_dir: the first counter from
\* `counter` on for which base_counter+ext does not exist
RECURSIVE FirstFree(_, _, _, _)
FirstFree(d, base, ext, counter) ==
    IF exists(d, base \o <<"_">> \o Str(counter) \o ext)
    THEN FirstFree(d, base, ext, counter + 1)
    ELSE counter

\* as unique_path, answering the path whether it exists or not
unique_path_Same(d, path) == path

unique_path(d, path) ==
    IF ~exists(d, path) THEN path
    ELSE LET base == splitext(path)[1]
             ext  == splitext(path)[2]
         IN  base \o <<"_">> \o Str(FirstFree(d, base, ext, 1)) \o ext

unique_dir(d, path) ==
    IF ~exists(d, path) THEN path
    ELSE path \o <<"_">> \o Str(FirstFree(d, path, <<>>, 1))

\* A frame rate is a fraction <<num, den>> with den > 0.
\* The rate convert_video takes from ffprobe: the default when ffprobe fails,
\* reports no video stream or no r_frame_rate, or when num/den divides by zero
ProbeFps(probe) ==
    IF probe[1] = "rate" /\ probe[3] # 0 THEN <<probe[2], probe[3]>>
    ELSE <<DefaultFps, 1>>

\* target_fps = min(fps, 15)
TargetFps(fps) == IF fps[1] <= FpsCap * fps[2] THEN fps ELSE <<FpsCap, 1>>

\* 1000 / target_fps raises ZeroDivisionError
DelayRaises(target) == target[1] = 0

\* delay_ms = int(1000 / target_fps)
DelayMs(target) == (MsPerSecond * target[2]) \div target[1]

\* as GifDelay, without the test for zero
GifDelay_KeepsZero(node) == IF node.dur = -1 THEN DefaultDelay ELSE node.dur

\* the delay convert_gif keeps: duration, 100 when absent or zero
GifDelay(node) ==
    LET delay_ms == IF node.dur = -1 THEN DefaultDelay ELSE node.dur
    IN  IF delay_ms = 0 THEN DefaultDelay ELSE delay_ms

\* is_converted_anim_dir(path): meta.txt and at least one frame file
is_converted_anim_dir(d, name) ==
    IF ~isdir(d, name) THEN FALSE
    ELSE LET has_meta   == d[name].meta.st # "none"
             has_frames == \E f \in DOMAIN d[name].files :
                               StartsWith(f, FRAME_PREFIX) /\ EndsWith(f, PNG_EXT)
         IN  has_meta /\ has_frames

\* process_file's routing by lowercased extension
Classify(name) ==
    LET ext == Lower(Suffix(name))
    IN  IF ext \in SUPPORTED_GIFS THEN "gif"
        ELSE IF ext \in SUPPORTED_VIDEOS THEN "video"
        ELSE IF ext \in SUPPORTED_IMAGES THEN "static"
        ELSE "unsupported"

\* the zero-padded number of a frame file name, frame_{i:03d}.png
Pad3(i) ==
    LET s == Str(i)
    IN  IF Len(s) >= 3 THEN s ELSE [k \in 1..(3 - Len(s)) |-> "0"] \o s

\* f"frame_{i:03d}.png"
FormatFrameName(i) == FRAME_PREFIX \o Pad3(i) \o PNG_EXT

\* the frame file names the bounded library can need, formatted once
FrameNames == [i \in 0..MaxFrames |-> FormatFrameName(i)]

FrameName(i) == FrameNames[i]

\* the place, from 0, that the transcoder's frame x takes in
\* sorted(os.listdir(tmpdir)) when the transcoder emitted the frames 1..k:
\* the number of staged names smaller than its own
FinalIndex(k, x) ==
    Cardinality({ y \in 1..k : StrLess(FormatFrameName(y), FormatFrameName(x)) })

\* sorted(os.listdir(tmpdir)) as the transcoder's frame numbers, in name order
RECURSIVE SortedFrames(_)
SortedFrames(S) ==
    IF S = {} THEN <<>>
    ELSE LET m == CHOOSE x \in S :
                    \A y \in S \ {x} : StrLess(FrameName(x), FrameName(y))
         IN  <<m>> \o SortedFrames(S \ {m})


(***************************************************************************)
(* The playback application's view of a playlist (src/app/__init__.py).    *)
(***************************************************************************)
\* get_items(playlist): the names the player lists, in sorted order
get_items(d) ==
    LET listed == { e \in DOMAIN d :
                      /\ ~(StartsWith(e, <<".">>) \/ e = META_TXT)
                      /\ \/ d[e].kind = "dir"
                         \/ EndsWith(Lower(e), JPG_EXT) }
    IN  Sorted(listed)

\* str.strip() on a line: blanks, tabs and the newline go from both ends
IsSpace(c) == c \in {" ", "\t", "\n"}

RECURSIVE LStrip(_)
LStrip(s) == IF s # <<>> /\ IsSpace(Head(s)) THEN LStrip(Tail(s)) ELSE s

RECURSIVE RStrip(_)
RStrip(s) ==
    IF s # <<>> /\ IsSpace(s[Len(s)]) THEN RStrip(SubSeq(s, 1, Len(s) - 1)) ELSE s

Strip(s) == RStrip(LStrip(s))

\* s.split("=")[1] for an s that holds a "=": what lies between the first
\* "=" and the second, or the end
RECURSIVE UpToEq(_)
UpToEq(s) == IF s = <<>> \/ Head(s) = "=" THEN <<>> ELSE <<Head(s)>> \o UpToEq(Tail(s))

RECURSIVE AfterEq(_)
AfterEq(s) == IF Head(s) = "=" THEN Tail(s) ELSE AfterEq(Tail(s))

SplitEq1(s) == UpToEq(AfterEq(s))

\* int(s): blanks around the number and one sign are accepted; anything else
\* raises ValueError
IsDigit(c) == c \in {"0", "1", "2", "3", "4", "5", "6", "7", "8", "9"}

DigitVal(c) == CHOOSE v \in 0..9 : DigitChar(v) = c

RECURSIVE DigitsVal(_)
DigitsVal(s) ==
    IF s = <<>> THEN 0 ELSE 10 * DigitsVal(SubSeq(s, 1, Len(s) - 1)) + DigitVal(s[Len(s)])

IntOf(s) ==
    LET t      == Strip(s)
        signed == t # <<>> /\ Head(t) \in {"-", "+"}
        digits == IF signed THEN Tail(t) ELSE t
    IN  IF digits = <<>> \/ \E i \in 1..Len(digits) : ~IsDigit(digits[i])
        THEN [raises |-> TRUE, val |-> 0]
        ELSE [raises |-> FALSE,
              val |-> IF signed /\ Head(t) = "-" THEN -DigitsVal(digits) ELSE DigitsVal(digits)]

FRAME_COUNT_KEY == <<"f", "r", "a", "m", "e", "_", "c", "o", "u", "n", "t", "=">>
DELAY_MS_KEY == <<"d", "e", "l", "a", "y", "_", "m", "s", "=">>

\* the for loop of read_meta over the lines that are left, from the values
\* it holds; an int() that raises ends it, nothing catches ValueError
RECURSIVE ReadMetaLines(_, _, _)
ReadMetaLines(lines, frame_count, delay_ms) ==
    IF lines = <<>> THEN [raises |-> FALSE, frame_count |-> frame_count, delay_ms |-> delay_ms]
    ELSE LET line == Strip(Head(lines))
         IN  IF StartsWith(line, FRAME_COUNT_KEY) THEN
                 IF IntOf(SplitEq1(line)).raises
                 THEN [raises |-> TRUE, frame_count |-> 0, delay_ms |-> 0]
                 ELSE ReadMetaLines(Tail(lines), IntOf(SplitEq1(line)).val, delay_ms)
             ELSE IF StartsWith(line, DELAY_MS_KEY) THEN
                 IF IntOf(SplitEq1(line)).raises
                 THEN [raises |-> TRUE, frame_count |-> 0, delay_ms |-> 0]
                 ELSE ReadMetaLines(Tail(lines), frame_count, IntOf(SplitEq1(line)).val)
             ELSE ReadMetaLines(Tail(lines), frame_count, delay_ms)

\* read_meta(anim_dir): meta is [exists, lines], names the directory's listing
read_meta(meta, names) ==
    IF meta.exists THEN ReadMetaLines(meta.lines, 0, PlayerDefaultDelay)
    ELSE [raises |-> FALSE,
          frame_count |-> Cardinality({ f \in names :
                                          StartsWith(f, FRAME_PREFIX) /\ EndsWith(f, JPG_EXT) }),
          delay_ms |-> PlayerDefaultDelay]

\* the meta.txt of a directory node as the text the converter wrote
MetaFile(node) ==
    IF node.meta.st = "none" THEN [exists |-> FALSE, lines |-> <<>>]
    ELSE IF node.meta.st = "empty" THEN [exists |-> TRUE, lines |-> <<>>]
    ELSE [exists |-> TRUE,
          lines |-> << FRAME_COUNT_KEY \o Str(node.meta.frame_count) \o <<"\n">>,
                       DELAY_MS_KEY \o Str(node.meta.delay_ms) \o <<"\n">> >>]

\* the listing of a directory node: its files, and meta.txt when there
DirNames(node) ==
    DOMAIN node.files \cup (IF node.meta.st = "none" THEN {} ELSE {META_TXT})

\* the frame file the playback loop opens for anim_frame = i
PlayerFrameName(i) == FRAME_PREFIX \o Pad3(i) \o JPG_EXT

\* the values anim_frame takes for an animation of anim_count frames
PlayerFrames(anim_count) == 0..((IF anim_count >= 1 THEN anim_count ELSE 1) - 1)

(***************************************************************************)
(* The initial library: two playlists.  The first holds at most MaxEntries *)
(* of the entries of Names, the second a hidden file, a JPEG and a file of *)
(* no supported extension.                                                 *)
(***************************************************************************)
Playlists == 1..2

A_GIF == <<"a", ".", "g", "i", "f">>
A_MP4 == <<"a", ".", "m", "p", "4">>
A_JPG == <<"a", ".", "j", "p", "g">>
A_JPG_UPPER == <<"a", ".", "J", "P", "G">>
A_PNG == <<"a", ".", "p", "n", "g">>
A_DIR == <<"a">>
B_TXT == <<"b", ".", "t", "x", "t">>
HIDDEN_JPG == <<".", "h", ".", "j", "p", "g">>
B_JPG == <<"b", ".", "j", "p", "g">>

Names == { A_GIF, A_MP4, A_JPG, A_JPG_UPPER, A_PNG, A_DIR }

\* the contents a name of the initial library may have
Variants(name) ==
    CASE name = A_GIF ->
           { File("GIF", 500, 500, 1, 1, -1, NoProbe, 1),
             File("GIF", 500, 500, 1, 0, -1, NoProbe, 1),
             File("GIF", 500, 500, MaxFrames, MaxFrames - 1, -1, NoProbe, 1) }
           \cup { File("GIF", 500, 500, MaxFrames, MaxFrames, dur, NoProbe, 1) :
                    dur \in {-1, 0, 40} }
      [] name = A_MP4 ->
           { File("VIDEO", 640, 480, MaxFrames, MaxFrames, -1, <<"rate", 30, 1>>, 2),
             File("VIDEO", 640, 480, MaxFrames, MaxFrames, -1, <<"rate", 0, 1>>, 2),
             File("VIDEO", 640, 480, MaxFrames, 0, -1, <<"rate", 30, 1>>, 2),
             File("VIDEO", 640, 480, 0, 1, -1, <<"rate", 30, 1>>, 2) }
      [] name = A_JPG ->
           { File("JPEG", 500, 500, 1, 1, -1, NoProbe, 3),
             File("JPEG", 500, 500, 1, 0, -1, NoProbe, 3) }
      [] name = A_PNG ->
           { File("PNG", DISPLAY_WIDTH, DISPLAY_HEIGHT, 1, 1, -1, NoProbe, 4),
             File("PNG", 500, 500, 1, 1, -1, NoProbe, 4),
             File("PNG", 500, 500, 1, 0, -1, NoProbe, 4) }
      [] name = A_DIR ->
           { Dir([f \in {FrameName(0)} |-> <<5, 0>>], Meta(1, DefaultDelay), 5, <<0, 0>>),
             Dir(EmptyFn, NoMeta, 5, <<0, 0>>) }
      [] name = A_JPG_UPPER -> { File("JPEG", 640, 480, 1, 1, -1, NoProbe, 8) }

InitialPlaylists ==
    UNION { { d \in [N -> UNION { Variants(x) : x \in N }] :
                \A x \in N : d[x] \in Variants(x) } :
            N \in { M \in SUBSET Names : Cardinality(M) <= MaxEntries } }

SecondPlaylist ==
    [x \in {HIDDEN_JPG, B_JPG, B_TXT} |->
        CASE x = HIDDEN_JPG -> File("JPEG", 500, 500, 1, 1, -1, NoProbe, 7)
          [] x = B_JPG -> File("JPEG", 640, 480, 1, 1, -1, NoProbe, 9)
          [] x = B_TXT -> File("DATA", 0, 0, 1, 0, -1, NoProbe, 6)]

InitialLibraries ==
    { [p \in Playlists |-> IF p = 1 THEN d ELSE SecondPlaylist] : d \in InitialPlaylists }

(***************************************************************************)
(* State.                                                                  *)
(***************************************************************************)
VARIABLES
    fs,       \* the library: playlist -> directory
    tmp,      \* the temporary directories: id -> the transcoder's frame numbers in it
    pc,       \* where the batch tool is
    run,      \* runs started so far
    kills,    \* interruptions so far
    pl,       \* the playlist process_playlist works on
    todo,     \* the entries of `entries` the loop has not reached yet
    cur,      \* input_path: the entry being converted
    loc,      \* the converter's local variables
    orig,     \* the library as it was before the first run
    startFs,  \* the library as it was when the current run started
    failed,   \* <<playlist, entry>> whose conversion did not succeed, this run
    trace,    \* <<playlist, entry>> handed to process_file, this run, in order
    arg,      \* the input of a pure function applied on its own
    ret,      \* and its result
    stdout       \* what process_playlist and process_file printed, this run

vars == <<fs, tmp, pc, run, kills, pl, todo, cur, loc, orig, startFs, failed, trace,
          arg, ret, stdout>>

NoLoc == [dir |-> <<>>, out |-> <<>>, i |-> 0, n |-> 0, delay |-> 0, frames |-> <<>>,
          tmpdir |-> 0]

Running ==
    { "scan", "static", "static_remove", "gif", "gif_frame", "gif_meta", "gif_remove",
      "video", "video_extract", "video_move", "video_meta", "video_meta_write",
      "video_remove" }

\* the id of the source a node stands for
SrcOf(node) == IF node.id # 0 THEN node.id ELSE node.src[1]

\* sorted(os.listdir(dir))
Listing(d) == Sorted(DOMAIN d)

Init ==
    /\ fs \in InitialLibraries
    /\ tmp = EmptyFn
    /\ pc = "idle"
    /\ run = 0
    /\ kills = 0
    /\ pl = 0
    /\ todo = <<>>
    /\ cur = <<>>
    /\ loc = NoLoc
    /\ orig = fs
    /\ startFs = fs
    /\ failed = {}
    /\ trace = <<>>
    /\ arg = <<>>
    /\ ret = <<>>
    /\ stdout = <<>>

(***************************************************************************)
(* Helpers of the actions.                                                 *)
(***************************************************************************)
\* the library with playlist p replaced by directory d
WithPlaylist(p, d) == [fs EXCEPT ![p] = d]

\* directory d with file fname of its subdirectory dir bound to v
PutIn(d, dir, fname, v) ==
    Put(d, dir, [d[dir] EXCEPT !.files =
                   [x \in DOMAIN d[dir].files \cup {fname} |->
                      IF x = fname THEN v ELSE d[dir].files[x]]])

\* directory d with meta.txt of its subdirectory dir holding m
PutMeta(d, dir, m) == Put(d, dir, [d[dir] EXCEPT !.meta = m])

\* the smallest id no temporary directory has (tempfile picks an unused name)
FreshTmp == CHOOSE k \in 1..(Cardinality(DOMAIN tmp) + 1) : k \notin DOMAIN tmp

\* an exception nothing catches: the interpreter ends the run with a traceback
Raise ==
    /\ pc' = "crashed"
    /\ failed' = failed \cup {<<pl, cur>>}

(***************************************************************************)
(* main() and process_playlist().                                          *)
(***************************************************************************)
\* main(): the tool is started; it enters process_playlist for the first
\* playlist, which lists its entries
Main ==
    /\ pc \in {"idle", "done", "crashed", "killed"}
    /\ run < MaxRuns
    /\ run' = run + 1
    /\ pl' = 1
    /\ todo' = Listing(fs[1])
    /\ pc' = "scan"
    /\ cur' = <<>>
    /\ loc' = NoLoc
    /\ startFs' = fs
    /\ failed' = {}
    /\ trace' = <<>>
    /\ stdout' = <<>>
    /\ UNCHANGED <<fs, tmp, kills, orig, arg, ret>>

\* as ScanEntry, without the test for a leading dot
ScanEntry_NoHiddenSkip ==
    /\ pc = "scan"
    /\ todo # <<>>
    /\ LET entry == Head(todo)
           ext   == Lower(Suffix(entry))
       IN  /\ todo' = Tail(todo)
           /\ IF isdir(fs[pl], entry) THEN
                  /\ stdout' = IF is_converted_anim_dir(fs[pl], entry)
                            THEN Append(stdout, <<"Already converted", pl, entry>>)
                            ELSE stdout
                  /\ UNCHANGED <<pc, cur, trace>>
              ELSE IF ext \in ALL_SUPPORTED THEN
                  /\ cur' = entry
                  /\ trace' = Append(trace, <<pl, entry>>)
                  /\ IF Classify(entry) = "unsupported"
                     THEN /\ stdout' = Append(stdout, <<"Skipping unsupported file", pl, entry>>)
                          /\ pc' = "scan"
                     ELSE /\ pc' = Classify(entry)
                          /\ stdout' = stdout
              ELSE
                  UNCHANGED <<pc, cur, trace, stdout>>
    /\ loc' = NoLoc
    /\ UNCHANGED <<fs, tmp, run, kills, pl, orig, startFs, failed, arg, ret>>

\* one turn of process_playlist's loop: skip the entry or hand it to
\* process_file, which routes it to its converter
ScanEntry ==
    /\ pc = "scan"
    /\ todo # <<>>
    /\ LET entry == Head(todo)
           ext   == Lower(Suffix(entry))
       IN  /\ todo' = Tail(todo)
           /\ IF StartsWith(entry, <<".">>) THEN
                  UNCHANGED <<pc, cur, trace, stdout>>
              ELSE IF isdir(fs[pl], entry) THEN
                  /\ stdout' = IF is_converted_anim_dir(fs[pl], entry)
                            THEN Append(stdout, <<"Already converted", pl, entry>>)
                            ELSE stdout
                  /\ UNCHANGED <<pc, cur, trace>>
              ELSE IF ext \in ALL_SUPPORTED THEN
                  /\ cur' = entry
                  /\ trace' = Append(trace, <<pl, entry>>)
                  /\ IF Classify(entry) = "unsupported"
                     THEN /\ stdout' = Append(stdout, <<"Skipping unsupported file", pl, entry>>)
                          /\ pc' = "scan"
                     ELSE /\ pc' = Classify(entry)
                          /\ stdout' = stdout
              ELSE
                  UNCHANGED <<pc, cur, trace, stdout>>
    /\ loc' = NoLoc
    /\ UNCHANGED <<fs, tmp, run, kills, pl, orig, startFs, failed, arg, ret>>

\* the loop of process_playlist ends: main() goes to the next playlist, or ends
EndPlaylist ==
    /\ pc = "scan"
    /\ todo = <<>>
    /\ LET found == \E i \in 1..Len(trace) : trace[i][1] = pl
       IN  stdout' = IF found THEN stdout ELSE Append(stdout, <<"No files to convert.", pl, <<>> >>)
    /\ IF pl + 1 \in Playlists
       THEN /\ pl' = pl + 1
            /\ todo' = Listing(fs[pl + 1])
            /\ pc' = "scan"
       ELSE /\ pc' = "done"
            /\ UNCHANGED <<pl, todo>>
    /\ UNCHANGED <<fs, tmp, run, kills, cur, loc, orig, startFs, failed, trace, arg, ret>>

(***************************************************************************)
(* convert_static_image().                                                 *)
(***************************************************************************)
\* convert_static_image up to and including save_png
StaticSave ==
    /\ pc = "static"
    /\ LET d        == fs[pl]
           node     == d[cur]
           ext      == Lower(Suffix(cur))
           img      == letterbox(node, DISPLAY_WIDTH, DISPLAY_HEIGHT)
           out_path == Stem(cur) \o PNG_EXT
           out      == unique_path(d, out_path)
       IN  IF ext = PNG_EXT /\ is_badge_ready_png(node) THEN
               /\ pc' = "scan"
               /\ UNCHANGED <<fs, loc, failed>>
           ELSE IF OpenRaises(node) THEN
               /\ Raise
               /\ UNCHANGED <<fs, loc>>
           ELSE IF ext # PNG_EXT THEN
               /\ fs' = WithPlaylist(pl, Put(d, out, PngOf(img, <<SrcOf(node), 0>>)))
               /\ loc' = [loc EXCEPT !.out = out]
               /\ pc' = "static_remove"
               /\ UNCHANGED failed
           ELSE
               /\ fs' = WithPlaylist(pl, Put(d, cur, PngOf(img, <<SrcOf(node), 0>>)))
               /\ pc' = "scan"
               /\ UNCHANGED <<loc, failed>>
    /\ UNCHANGED <<tmp, run, kills, pl, todo, cur, orig, startFs, trace, arg, ret, stdout>>

\* os.remove(input_path) after the new file is written
StaticRemove ==
    /\ pc = "static_remove"
    /\ fs' = WithPlaylist(pl, Remove(fs[pl], cur))
    /\ pc' = "scan"
    /\ UNCHANGED <<tmp, run, kills, pl, todo, cur, loc, orig, startFs, failed, trace,
                   arg, ret, stdout>>

(***************************************************************************)
(* convert_gif().                                                          *)
(***************************************************************************)
\* Image.open, n_frames, and for an animation unique_dir and os.makedirs
GifOpen ==
    /\ pc = "gif"
    /\ LET d         == fs[pl]
           node      == d[cur]
           frame_dir == unique_dir(d, Stem(cur))
       IN  IF OpenRaises(node) THEN
               /\ Raise
               /\ UNCHANGED <<fs, loc>>
           ELSE IF node.n <= 1 THEN
               /\ pc' = "static"
               /\ UNCHANGED <<fs, loc, failed>>
           ELSE IF exists(d, frame_dir) THEN
               /\ Raise
               /\ UNCHANGED <<fs, loc>>
           ELSE
               /\ fs' = WithPlaylist(pl,
                          Put(d, frame_dir, Dir(EmptyFn, NoMeta, 0, <<SrcOf(node), 0>>)))
               /\ loc' = [NoLoc EXCEPT !.dir = frame_dir, !.n = node.n,
                                       !.delay = GifDelay(node)]
               /\ pc' = "gif_frame"
               /\ UNCHANGED failed
    /\ UNCHANGED <<tmp, run, kills, pl, todo, cur, orig, startFs, trace, arg, ret, stdout>>

\* as GifFrame, with the frame files numbered from 1
GifFrame_FromOne ==
    /\ pc = "gif_frame"
    /\ loc.i < loc.n
    /\ LET node == fs[pl][cur]
       IN  IF node.badAt = loc.i THEN
               /\ Raise
               /\ UNCHANGED <<fs, loc>>
           ELSE
               /\ fs' = WithPlaylist(pl,
                          PutIn(fs[pl], loc.dir, FrameName(loc.i + 1),
                                <<SrcOf(node), loc.i>>))
               /\ loc' = [loc EXCEPT !.i = loc.i + 1]
               /\ UNCHANGED <<pc, failed>>
    /\ UNCHANGED <<tmp, run, kills, pl, todo, cur, orig, startFs, trace, arg, ret, stdout>>

\* one turn of the frame loop: seek, convert, letterbox, save_png
GifFrame ==
    /\ pc = "gif_frame"
    /\ loc.i < loc.n
    /\ LET node == fs[pl][cur]
       IN  IF node.badAt = loc.i THEN
               /\ Raise
               /\ UNCHANGED <<fs, loc>>
           ELSE
               /\ fs' = WithPlaylist(pl,
                          PutIn(fs[pl], loc.dir, FrameName(loc.i), <<SrcOf(node), loc.i>>))
               /\ loc' = [loc EXCEPT !.i = loc.i + 1]
               /\ UNCHANGED <<pc, failed>>
    /\ UNCHANGED <<tmp, run, kills, pl, todo, cur, orig, startFs, trace, arg, ret, stdout>>

\* as GifMetaOpen, with the source removed before meta.txt is written
GifMetaOpen_RemoveFirst ==
    /\ pc = "gif_frame"
    /\ loc.i = loc.n
    /\ fs' = WithPlaylist(pl, Remove(fs[pl], cur))
    /\ pc' = "gif_meta"
    /\ UNCHANGED <<tmp, run, kills, pl, todo, cur, loc, orig, startFs, failed, trace,
                   arg, ret, stdout>>

\* open(meta.txt, "w") after the loop: the file exists and is empty
GifMetaOpen ==
    /\ pc = "gif_frame"
    /\ loc.i = loc.n
    /\ fs' = WithPlaylist(pl, PutMeta(fs[pl], loc.dir, EmptyMeta))
    /\ pc' = "gif_meta"
    /\ UNCHANGED <<tmp, run, kills, pl, todo, cur, loc, orig, startFs, failed, trace,
                   arg, ret, stdout>>

\* the two writes reach the file when the with block closes it
GifMetaWrite ==
    /\ pc = "gif_meta"
    /\ fs' = WithPlaylist(pl, PutMeta(fs[pl], loc.dir, Meta(loc.n, loc.delay)))
    /\ pc' = "gif_remove"
    /\ UNCHANGED <<tmp, run, kills, pl, todo, cur, loc, orig, startFs, failed, trace,
                   arg, ret, stdout>>

\* os.remove(input_path)
GifRemove ==
    /\ pc = "gif_remove"
    /\ fs' = WithPlaylist(pl, Remove(fs[pl], cur))
    /\ pc' = "scan"
    /\ UNCHANGED <<tmp, run, kills, pl, todo, cur, loc, orig, startFs, failed, trace,
                   arg, ret, stdout>>

(***************************************************************************)
(* convert_video().                                                        *)
(***************************************************************************)
\* shutil.which for both tools, then unique_dir and os.makedirs
VideoStart ==
    /\ pc = "video"
    /\ \E installed \in BOOLEAN :
         LET d         == fs[pl]
             node      == d[cur]
             frame_dir == unique_dir(d, Stem(cur))
         IN  IF ~installed THEN
                 /\ pc' = "scan"
                 /\ failed' = failed \cup {<<pl, cur>>}
                 /\ UNCHANGED <<fs, loc>>
             ELSE IF exists(d, frame_dir) THEN
                 /\ Raise
                 /\ UNCHANGED <<fs, loc>>
             ELSE
                 /\ fs' = WithPlaylist(pl,
                            Put(d, frame_dir, Dir(EmptyFn, NoMeta, 0, <<SrcOf(node), 0>>)))
                 /\ loc' = [NoLoc EXCEPT !.dir = frame_dir]
                 /\ pc' = "video_extract"
                 /\ UNCHANGED failed
    /\ UNCHANGED <<tmp, run, kills, pl, todo, cur, orig, startFs, trace, arg, ret, stdout>>

\* as VideoExtract, with ffmpeg's exit status not checked: after a failure
\* the conversion goes on with what was staged
VideoExtract_NoCheck ==
    /\ pc = "video_extract"
    /\ LET node       == fs[pl][cur]
           fps        == ProbeFps(node.probe)
           target_fps == TargetFps(fps)
           tmpdir     == FreshTmp
           staged     == IF node.badAt = 0 THEN {} ELSE 1..node.n
       IN  IF DelayRaises(target_fps) THEN
               /\ Raise
               /\ UNCHANGED <<tmp, loc>>
           ELSE
               /\ tmp' = Put(tmp, tmpdir, staged)
               /\ loc' = [loc EXCEPT !.delay = DelayMs(target_fps), !.tmpdir = tmpdir,
                                     !.frames = SortedFrames(staged), !.i = 0]
               /\ pc' = "video_move"
               /\ failed' = IF node.badAt = 0 THEN failed \cup {<<pl, cur>>} ELSE failed
    /\ UNCHANGED <<fs, run, kills, pl, todo, cur, orig, startFs, trace, arg, ret, stdout>>

\* ffprobe, target_fps and delay_ms, then the temporary directory and ffmpeg:
\* a failure of ffmpeg leaves the with block, which removes the directory
VideoExtract ==
    /\ pc = "video_extract"
    /\ LET node       == fs[pl][cur]
           fps        == ProbeFps(node.probe)
           target_fps == TargetFps(fps)
           tmpdir     == FreshTmp
       IN  IF DelayRaises(target_fps) THEN
               /\ Raise
               /\ UNCHANGED <<tmp, loc>>
           ELSE IF node.badAt = 0 THEN
               /\ Raise
               /\ UNCHANGED <<tmp, loc>>
           ELSE
               /\ tmp' = Put(tmp, tmpdir, 1..node.n)
               /\ loc' = [loc EXCEPT !.delay = DelayMs(target_fps), !.tmpdir = tmpdir,
                                     !.frames = SortedFrames(1..node.n), !.i = 0]
               /\ pc' = "video_move"
               /\ UNCHANGED failed
    /\ UNCHANGED <<fs, run, kills, pl, todo, cur, orig, startFs, trace, arg, ret, stdout>>

\* one turn of the move loop: shutil.move of the next staged frame
VideoMove ==
    /\ pc = "video_move"
    /\ loc.i < Len(loc.frames)
    /\ LET node  == fs[pl][cur]
           fname == loc.frames[loc.i + 1]
       IN  /\ fs' = WithPlaylist(pl,
                      PutIn(fs[pl], loc.dir, FrameName(loc.i), <<SrcOf(node), fname>>))
           /\ tmp' = [tmp EXCEPT ![loc.tmpdir] = @ \ {fname}]
           /\ loc' = [loc EXCEPT !.i = loc.i + 1]
    /\ UNCHANGED <<pc, run, kills, pl, todo, cur, orig, startFs, failed, trace, arg, ret,
                   stdout>>

\* the with block ends: the temporary directory is removed
VideoCleanup ==
    /\ pc = "video_move"
    /\ loc.i = Len(loc.frames)
    /\ tmp' = Remove(tmp, loc.tmpdir)
    /\ pc' = "video_meta"
    /\ UNCHANGED <<fs, run, kills, pl, todo, cur, loc, orig, startFs, failed, trace,
                   arg, ret, stdout>>

\* frame_count counts the .png files of frame_dir; open(meta.txt, "w")
VideoMetaOpen ==
    /\ pc = "video_meta"
    /\ LET frame_count ==
               Cardinality({ x \in DOMAIN fs[pl][loc.dir].files : EndsWith(x, PNG_EXT) })
       IN  loc' = [loc EXCEPT !.n = frame_count]
    /\ fs' = WithPlaylist(pl, PutMeta(fs[pl], loc.dir, EmptyMeta))
    /\ pc' = "video_meta_write"
    /\ UNCHANGED <<tmp, run, kills, pl, todo, cur, orig, startFs, failed, trace, arg, ret,
                   stdout>>

\* the two writes reach the file when the with block closes it
VideoMetaWrite ==
    /\ pc = "video_meta_write"
    /\ fs' = WithPlaylist(pl, PutMeta(fs[pl], loc.dir, Meta(loc.n, loc.delay)))
    /\ pc' = "video_remove"
    /\ UNCHANGED <<tmp, run, kills, pl, todo, cur, loc, orig, startFs, failed, trace,
                   arg, ret, stdout>>

\* os.remove(input_path)
VideoRemove ==
    /\ pc = "video_remove"
    /\ fs' = WithPlaylist(pl, Remove(fs[pl], cur))
    /\ pc' = "scan"
    /\ UNCHANGED <<tmp, run, kills, pl, todo, cur, loc, orig, startFs, failed, trace,
                   arg, ret, stdout>>

(***************************************************************************)
(* The environment: the process is killed inside a converter, before any   *)
(* of its filesystem steps or between two of them.  (Killed between two    *)
(* entries, it leaves the library as when killed before the first step of  *)
(* the next converter.)  Nothing is cleaned up: a temporary directory in    *)
(* use stays.                                                              *)
(***************************************************************************)
Kill ==
    /\ pc \in Running \ {"scan"}
    /\ kills < MaxKills
    /\ kills' = kills + 1
    /\ pc' = "killed"
    /\ UNCHANGED <<fs, tmp, run, pl, todo, cur, loc, orig, startFs, failed, trace,
                   arg, ret, stdout>>

Next ==
    \/ Main
    \/ ScanEntry
    \/ EndPlaylist
    \/ StaticSave
    \/ StaticRemove
    \/ GifOpen
    \/ GifFrame
    \/ GifMetaOpen
    \/ GifMetaWrite
    \/ GifRemove
    \/ VideoStart
    \/ VideoExtract
    \/ VideoMove
    \/ VideoCleanup
    \/ VideoMetaOpen
    \/ VideoMetaWrite
    \/ VideoRemove
    \/ Kill

Spec == Init /\ [][Next]_vars

(***************************************************************************)
(* What the claims speak of.                                               *)
(***************************************************************************)
\* the converter wrote this node
Written(x) == x.id = 0

\* a PNG still in playlist p made from source id
HasStill(p, id) ==
    \E f \in DOMAIN fs[p] :
        /\ fs[p][f].kind = "file"
        /\ Written(fs[p][f])
        /\ fs[p][f].src = <<id, 0>>
        /\ fs[p][f].fmt = "PNG"
        /\ Lower(Suffix(f)) = PNG_EXT

\* x is a frame directory made from source id holding meta.txt with
\* frame_count = n and the frame files 0..n-1
CompleteDir(x, id, n) ==
    /\ x.kind = "dir"
    /\ Written(x)
    /\ x.src[1] = id
    /\ x.meta = Meta(n, x.meta.delay_ms)
    /\ \A i \in 0..(n - 1) : FrameName(i) \in DOMAIN x.files

\* the names of the initial library, by the converter process_file picks
LibraryNames == Names \cup DOMAIN SecondPlaylist

GifNames == { e \in LibraryNames : Classify(e) = "gif" }

VideoNames == { e \in LibraryNames : Classify(e) = "video" }

\* the names whose conversion puts something of another name in their place
ReplacedNames ==
    { e \in LibraryNames : Classify(e) # "unsupported" /\ Lower(Suffix(e)) # PNG_EXT }

\* the sources whose conversion replaces them by something of another name
Replaced(p) ==
    { e \in DOMAIN orig[p] : orig[p][e].kind = "file" /\ e \in ReplacedNames }

\* the source becomes an animation: a video, or a GIF of more than one frame
IsAnimation(e, node) == e \in VideoNames \/ (e \in GifNames /\ node.n > 1)

\* the whole artifact of source e of playlist p is on disk
ArtifactPresent(p, e) ==
    LET node == orig[p][e]
    IN  IF IsAnimation(e, node)
        THEN \E x \in DOMAIN fs[p] : CompleteDir(fs[p][x], node.id, node.n)
        ELSE HasStill(p, node.id)

\* C1: in every reachable state, interrupted runs included, a source that is
\* gone from its playlist has its complete artifact there: the PNG for a
\* still, the directory with every frame file and meta.txt for an animation.
C1_SourceGoneOnlyAfterArtifact ==
    \A p \in Playlists : \A e \in DOMAIN orig[p] \ DOMAIN fs[p] :
        e \in Replaced(p) => ArtifactPresent(p, e)

\* a run was interrupted and the next one ran to its end: a GIF animation, a
\* video with frames and a JPEG are gone
C1_Witness ==
    /\ kills >= 1 /\ run = 2 /\ pc = "done"
    /\ A_GIF \in Replaced(1) /\ orig[1][A_GIF].n > 1 /\ A_GIF \notin DOMAIN fs[1]
    /\ A_MP4 \in Replaced(1) /\ orig[1][A_MP4].n >= 1 /\ A_MP4 \notin DOMAIN fs[1]
    /\ B_JPG \notin DOMAIN fs[2]

\* entry e of playlist p of library lib is one process_playlist hands on
Eligible(lib, p, e) ==
    /\ ~StartsWith(e, <<".">>)
    /\ lib[p][e].kind = "file"
    /\ Lower(Suffix(e)) \in ALL_SUPPORTED

Dispatched(p, e) == \E i \in 1..Len(trace) : trace[i] = <<p, e>>

\* C2 (as stated): when a conversion fails, the run still reaches its normal
\* end and every later entry, of this playlist and of the later ones, is
\* handed to its converter in the same run.
C2_FailureDoesNotBlock ==
    (pc \in {"done", "crashed"} /\ failed # {}) =>
        /\ pc = "done"
        /\ \A p \in Playlists : \A e \in DOMAIN startFs[p] :
               Eligible(startFs, p, e) => Dispatched(p, e)

\* C3: a conversion that did not succeed (decoding failed at open or at a
\* frame, a tool is missing, the transcoder failed) leaves its source in place
\* with the content it had; and outside the staging phase of a video no
\* temporary directory exists but those an interruption left behind.
C3_FailurePreservesSource ==
    /\ \A f \in failed :
           /\ f[2] \in DOMAIN fs[f[1]]
           /\ f[2] \in DOMAIN orig[f[1]]
           /\ fs[f[1]][f[2]] = orig[f[1]][f[2]]
    /\ pc # "video_move" => Cardinality(DOMAIN tmp) <= kills

\* the transcoder failed on a.mp4, a GIF failed at a frame
C3_Witness ==
    /\ pc = "crashed"
    /\ kills = 0
    /\ run = 2
    /\ <<1, A_MP4>> \in failed
    /\ fs[1][A_MP4].badAt = 0
    /\ A_DIR \in DOMAIN fs[1]
    /\ tmp = EmptyFn

\* a listed item is whole: a still of the display's size, or a directory with
\* meta.txt and the frame files 0..frame_count-1
ItemComplete(x) ==
    IF x.kind = "dir"
    THEN /\ x.meta.st = "full"
         /\ \A i \in 0..(x.meta.frame_count - 1) : FrameName(i) \in DOMAIN x.files
    ELSE /\ ~OpenRaises(x)
         /\ <<x.w, x.h>> = <<DISPLAY_WIDTH, DISPLAY_HEIGHT>>

\* C4 (as stated): whenever the tool is not running (it ended, crashed or was
\* killed), every item get_items lists that the converter made is whole.
C4_NoPartialItem ==
    pc \notin Running =>
        \A p \in Playlists :
            LET items == get_items(fs[p])
            IN  \A i \in 1..Len(items) :
                    Written(fs[p][items[i]]) => ItemComplete(fs[p][items[i]])

\* what the converter made from source e of playlist p
MadeFrom(p, e) ==
    { x \in DOMAIN fs[p] : Written(fs[p][x]) /\ fs[p][x].src[1] = orig[p][e].id }

\* C5 (as stated): once a run has reached its end, whatever was interrupted
\* before, no GIF animation or video (of at least one frame) has two items
\* made from it in its playlist (never stem and stem_1 for one source), one
\* that is gone has exactly one, and none is gone without its complete
\* artifact.
C5_RerunNoDuplicate ==
    pc = "done" =>
        \A p \in Playlists : \A e \in Replaced(p) :
            (IsAnimation(e, orig[p][e]) /\ orig[p][e].n >= 1) =>
                /\ Cardinality(MadeFrom(p, e)) <= 1
                /\ e \notin DOMAIN fs[p] =>
                       (Cardinality(MadeFrom(p, e)) = 1 /\ ArtifactPresent(p, e))

\* the file convert_static_image leaves alone: named .png, PNG, display size
Canonical(name, x) ==
    /\ x.kind = "file"
    /\ ~OpenRaises(x)
    /\ x.fmt = "PNG"
    /\ <<x.w, x.h>> = <<DISPLAY_WIDTH, DISPLAY_HEIGHT>>
    /\ Lower(Suffix(name)) = PNG_EXT

\* nothing in the library is left to convert: every entry is hidden, a
\* directory, of no supported extension, or canonical
Settled(lib) ==
    \A p \in Playlists : \A e \in DOMAIN lib[p] :
        \/ lib[p][e].kind = "dir"
        \/ StartsWith(e, <<".">>)
        \/ Canonical(e, lib[p][e])
        \/ Lower(Suffix(e)) \notin ALL_SUPPORTED

\* every still the converter wrote is canonical
OutputsCanonical ==
    \A p \in Playlists : \A e \in DOMAIN fs[p] :
        (fs[p][e].kind = "file" /\ Written(fs[p][e])) => Canonical(e, fs[p][e])

\* C6: convert_static_image changes nothing on a canonical file; what a
\* static conversion writes is canonical; a run over a library with nothing
\* left to convert leaves the library as it was; and a run that ends without
\* a failure leaves nothing to convert, so the run after it is such a run.
C6_Idempotent ==
    /\ [](/\ OutputsCanonical
          /\ Settled(startFs) => fs = startFs
          /\ (pc = "done" /\ failed = {}) => Settled(fs))
    /\ [][(pc = "static" /\ Canonical(cur, fs[pl][cur])) => fs' = fs]_vars

\* the second run found nothing to convert after a first run that converted,
\* and handed canonical PNGs to convert_static_image
C6_Witness ==
    /\ run = 2 /\ pc = "done"
    /\ Settled(startFs) /\ startFs # orig
    /\ Len(trace) >= 2
    /\ fs = startFs

\* C7 (as stated): every meta.txt the converter wrote carries a positive
\* frame_count equal to the number of frame files in its directory, and a
\* positive delay_ms.
C7_MetaCountsFrames ==
    \A p \in Playlists : \A x \in DOMAIN fs[p] :
        (fs[p][x].kind = "dir" /\ Written(fs[p][x]) /\ fs[p][x].meta.st = "full") =>
            /\ fs[p][x].meta.frame_count >= 1
            /\ fs[p][x].meta.frame_count =
                   Cardinality({ f \in DOMAIN fs[p][x].files :
                                   StartsWith(f, FRAME_PREFIX) /\ EndsWith(f, PNG_EXT) })
            /\ fs[p][x].meta.delay_ms >= 1

GifSources(p) ==
    { e \in DOMAIN orig[p] : orig[p][e].kind = "file" /\ e \in GifNames }

\* the directories the converter made from the node
DirsOf(p, node) ==
    { x \in DOMAIN fs[p] :
        fs[p][x].kind = "dir" /\ Written(fs[p][x]) /\ fs[p][x].src[1] = node.id }

\* C8: a GIF of n > 1 frames gets a directory that is new (nothing that was
\* there is overwritten), whose files are never other than frame i of the
\* source under the name of frame i, and which, once meta.txt is written,
\* holds exactly the frames 0..n-1 and frame_count = n; a converted GIF has
\* such a directory.  A GIF of one frame gets no directory and becomes a PNG.
C8_GifFrames ==
    \A p \in Playlists :
        /\ \A e \in DOMAIN orig[p] :
               orig[p][e].kind = "dir" => (e \in DOMAIN fs[p] /\ fs[p][e] = orig[p][e])
        /\ \A e \in GifSources(p) :
               LET node == orig[p][e]
                   n    == node.n
               IN  IF n <= 1
                   THEN /\ DirsOf(p, node) = {}
                        /\ e \notin DOMAIN fs[p] => HasStill(p, node.id)
                   ELSE /\ \A x \in DirsOf(p, node) :
                             LET dir == fs[p][x]
                             IN  /\ DOMAIN dir.files \subseteq { FrameName(i) : i \in 0..(n - 1) }
                                 /\ \A i \in 0..(n - 1) :
                                        FrameName(i) \in DOMAIN dir.files =>
                                            dir.files[FrameName(i)] = <<node.id, i>>
                                 /\ dir.meta.st = "full" =>
                                        /\ dir.meta.frame_count = n
                                        /\ DOMAIN dir.files = { FrameName(i) : i \in 0..(n - 1) }
                        /\ e \notin DOMAIN fs[p] =>
                               \E x \in DirsOf(p, node) : fs[p][x].meta.st = "full"

\* a GIF animation was converted next to a directory that had its name
C8_Witness ==
    /\ pc = "done"
    /\ A_GIF \in GifSources(1) /\ orig[1][A_GIF].n > 1 /\ A_GIF \notin DOMAIN fs[1]
    /\ A_DIR \in DOMAIN orig[1]
    /\ <<"a", "_", "1">> \in DirsOf(1, orig[1][A_GIF])

(***************************************************************************)
(* The naming resolver on its own: unique_path and unique_dir are called,  *)
(* up to twice in a row, for a base path in a directory that holds any     *)
(* names out of NamingCandidates.                                             *)
(***************************************************************************)
NamingBases ==
    { [stem |-> <<"a">>, ext |-> PNG_EXT],
      [stem |-> <<"a", "_", "1">>, ext |-> PNG_EXT],
      [stem |-> <<"a">>, ext |-> <<>>],
      [stem |-> <<"a", "_", "1">>, ext |-> <<>>],
      [stem |-> <<".", "h">>, ext |-> <<>>] }

NamingCandidates ==
    { b.stem \o sfx \o b.ext :
        b \in NamingBases,
        sfx \in { <<>>, <<"_", "1">>, <<"_", "2">> } }
    \cup { A_PNG \o <<"_", "1">> }

TakenDir(T) == [x \in T |-> File("DATA", 0, 0, 1, 0, -1, NoProbe, 1)]

\* the state of every variable the pure functions do not use
Unused ==
    /\ tmp = EmptyFn
    /\ run = 0
    /\ kills = 0
    /\ pl = 0
    /\ todo = <<>>
    /\ cur = <<>>
    /\ loc = NoLoc
    /\ orig = fs
    /\ startFs = fs
    /\ failed = {}
    /\ trace = <<>>
    /\ ret = <<>>
    /\ stdout = <<>>

InitNaming ==
    /\ fs \in { [p \in Playlists |-> IF p = 1 THEN TakenDir(T) ELSE EmptyFn] :
                  T \in { S \in SUBSET NamingCandidates : Cardinality(S) <= MaxTaken } }
    /\ arg \in NamingBases
    /\ pc = "naming"
    /\ Unused

CallUniquePath ==
    /\ pc = "naming"
    /\ Len(ret) < 2
    /\ ret' = Append(ret, [fn |-> "unique_path",
                           path |-> unique_path(fs[1], arg.stem \o arg.ext)])
    /\ UNCHANGED <<fs, tmp, pc, run, kills, pl, todo, cur, loc, orig, startFs, failed,
                   trace, arg, stdout>>

CallUniqueDir ==
    /\ pc = "naming"
    /\ Len(ret) < 2
    /\ ret' = Append(ret, [fn |-> "unique_dir",
                           path |-> unique_dir(fs[1], arg.stem \o arg.ext)])
    /\ UNCHANGED <<fs, tmp, pc, run, kills, pl, todo, cur, loc, orig, startFs, failed,
                   trace, arg, stdout>>

NextNaming == CallUniquePath \/ CallUniqueDir

SpecNaming == InitNaming /\ [][NextNaming]_vars

\* base_k+ext is the answer for a base that exists: it is free and every
\* smaller counter from 1 on is taken
IsFirstFree(d, path, base, ext) ==
    \E k \in 1..(Cardinality(DOMAIN d) + 1) :
        /\ path = base \o <<"_">> \o Str(k) \o ext
        /\ \A j \in 1..(k - 1) : (base \o <<"_">> \o Str(j) \o ext) \in DOMAIN d

\* C9: what unique_path and unique_dir return does not exist; it is the base
\* when the base is free, and otherwise base_k (unique_path: before the
\* extension) for the smallest k >= 1 that is free; the directory is as it
\* was, and two calls in a row return the same path.
C9_UniqueIsFreeAndFirst ==
    /\ fs = orig
    /\ \A i \in 1..Len(ret) :
           LET d    == fs[1]
               base == arg.stem \o arg.ext
               path == ret[i].path
           IN  /\ path \notin DOMAIN d
               /\ base \notin DOMAIN d => path = base
               /\ base \in DOMAIN d =>
                      IF ret[i].fn = "unique_path"
                      THEN IsFirstFree(d, path, arg.stem, arg.ext)
                      ELSE IsFirstFree(d, path, base, <<>>)
               /\ \A j \in 1..Len(ret) : ret[j].fn = ret[i].fn => ret[j].path = path

\* a.png and a_1.png exist: unique_path answered a_2.png, twice
C9_Witness ==
    /\ pc = "naming"
    /\ arg = [stem |-> <<"a">>, ext |-> PNG_EXT]
    /\ Len(ret) = 2
    /\ ret[1] = [fn |-> "unique_path", path |-> <<"a", "_", "2">> \o PNG_EXT]
    /\ ret[2] = ret[1]

(***************************************************************************)
(* The frame rate arithmetic of convert_video on its own, for every        *)
(* outcome of ffprobe.                                                     *)
(***************************************************************************)
Probes ==
    { <<"fail", 0, 0>>, <<"nostream", 0, 0>>, <<"norate", 0, 0>> }
    \cup { <<"rate", num, den>> : num \in 0..MaxNum, den \in 0..MaxDen }

InitFps ==
    /\ fs = [p \in Playlists |-> EmptyFn]
    /\ arg \in Probes
    /\ pc = "fps"
    /\ Unused

\* lines 176-195 of convert_video for the probe outcome arg
ComputeDelay ==
    /\ pc = "fps"
    /\ ret = <<>>
    /\ LET fps        == ProbeFps(arg)
           target_fps == TargetFps(fps)
       IN  ret' = <<[fps |-> fps, target_fps |-> target_fps,
                     raised |-> DelayRaises(target_fps),
                     delay_ms |-> IF DelayRaises(target_fps) THEN 0
                                  ELSE DelayMs(target_fps)]>>
    /\ UNCHANGED <<fs, tmp, pc, run, kills, pl, todo, cur, loc, orig, startFs, failed,
                   trace, arg, stdout>>

NextFps == ComputeDelay

SpecFps == InitFps /\ [][NextFps]_vars

\* the rules of the rate arithmetic, but for delay_ms being defined: the
\* default rate, the cap, and the floor of the division when it is defined
FpsRules(r) ==
    /\ (arg[1] # "rate" \/ arg[3] = 0) => r.fps = <<DefaultFps, 1>>
    /\ (arg[1] = "rate" /\ arg[3] # 0) => r.fps = <<arg[2], arg[3]>>
    /\ r.fps[1] <= FpsCap * r.fps[2] => r.target_fps = r.fps
    /\ r.fps[1] > FpsCap * r.fps[2] => r.target_fps = <<FpsCap, 1>>
    /\ ~r.raised =>
           /\ r.delay_ms * r.target_fps[1] <= MsPerSecond * r.target_fps[2]
           /\ (r.delay_ms + 1) * r.target_fps[1] > MsPerSecond * r.target_fps[2]
    /\ arg = <<"rate", 30, 1>> => (r.target_fps = <<15, 1>> /\ r.delay_ms = 66)

\* C10 (as stated): for every probe outcome the rate defaults to 10 fps when
\* probing fails or finds no video stream, target_fps = min(fps, 15),
\* delay_ms = floor(1000 / target_fps), and delay_ms is defined and positive,
\* also for a rate with a zero numerator or denominator; 30 fps gives 15, 66.
C10_DelayDefinedAndPositive ==
    ret # <<>> =>
        /\ FpsRules(ret[1])
        /\ ~ret[1].raised
        /\ ret[1].delay_ms >= 1

(***************************************************************************)
(* letterbox on its own, at the display's size, for every source size with  *)
(* sides out of Sides.                                                        *)
(***************************************************************************)
LargeSides == { 240, 320, 321, 480, 500, 640 }

Sides == (1..MaxSide) \cup LargeSides

InitLetterbox ==
    /\ fs = [p \in Playlists |-> EmptyFn]
    /\ arg \in { <<iw, ih>> : iw \in Sides, ih \in Sides }
    /\ pc = "letterbox"
    /\ Unused

CallLetterbox ==
    /\ pc = "letterbox"
    /\ ret = <<>>
    /\ ret' = <<letterbox([w |-> arg[1], h |-> arg[2]], DISPLAY_WIDTH, DISPLAY_HEIGHT)>>
    /\ UNCHANGED <<fs, tmp, pc, run, kills, pl, todo, cur, loc, orig, startFs, failed,
                   trace, arg, stdout>>

NextLetterbox == CallLetterbox

SpecLetterbox == InitLetterbox /\ [][NextLetterbox]_vars

Abs(x) == IF x < 0 THEN -x ELSE x

\* the canvas is W x H and the content lies centred inside it
LetterboxFrame(r, W, H) ==
    /\ <<r.w, r.h>> = <<W, H>>
    /\ r.new_w <= W /\ r.new_h <= H
    /\ r.offset_x = (W - r.new_w) \div 2 /\ r.offset_x >= 0
    /\ r.offset_y = (H - r.new_h) \div 2 /\ r.offset_y >= 0

\* new_w : new_h is iw : ih within one pixel on one side
AspectWithinOnePixel(r, iw, ih) ==
    \/ Abs(r.new_w * ih - r.new_h * iw) <= iw
    \/ Abs(r.new_w * ih - r.new_h * iw) <= ih

\* C11 (as stated): letterbox returns a W x H canvas; the content is
\* floor(iw*s) x floor(ih*s) for s = min(W/iw, H/ih), at least 1 and at most
\* W and H on its sides, centred at non-negative offsets, of the source's
\* aspect ratio within one pixel; 500x500 gives 240x240 at (40, 0).
C11_LetterboxGeometry ==
    ret # <<>> =>
        LET iw == arg[1]
            ih == arg[2]
            W  == DISPLAY_WIDTH
            H  == DISPLAY_HEIGHT
            s  == IF W * ih <= H * iw THEN <<W, iw>> ELSE <<H, ih>>
            r  == ret[1]
        IN  /\ LetterboxFrame(r, W, H)
            /\ r.new_w = (iw * s[1]) \div s[2]
            /\ r.new_h = (ih * s[1]) \div s[2]
            /\ r.new_w >= 1 /\ r.new_h >= 1
            /\ AspectWithinOnePixel(r, iw, ih)
            /\ arg = <<500, 500>> =>
                   <<r.new_w, r.new_h, r.offset_x, r.offset_y>> = <<240, 240, 40, 0>>

(***************************************************************************)
(* The start of main on its own: the media directory is missing, is a file, *)
(* or is a directory holding up to MaxRoot entries, each a directory or a   *)
(* file.                                                                   *)
(***************************************************************************)
RootNames == { <<"a">>, <<"b">>, <<".", "h">>, A_PNG, B_TXT }

Roots ==
    { [kind |-> "missing", entries |-> EmptyFn], [kind |-> "file", entries |-> EmptyFn] }
    \cup { [kind |-> "dir", entries |-> e] :
             e \in UNION { [N -> {"dir", "file"}] :
                             N \in { M \in SUBSET RootNames : Cardinality(M) <= MaxRoot } } }

InitStartup ==
    /\ fs = [p \in Playlists |-> EmptyFn]
    /\ arg \in Roots
    /\ pc = "startup"
    /\ Unused

\* main up to the loop over the playlists: sys.exit(1) when the media
\* directory is no directory or holds no playlist directory.  ret holds the
\* playlists found and, once pc = "exited", the exit code.
Startup ==
    /\ pc = "startup"
    /\ LET playlists == Sorted({ entry \in DOMAIN arg.entries :
                                   /\ arg.entries[entry] = "dir"
                                   /\ ~StartsWith(entry, <<".">>) })
       IN  IF arg.kind # "dir" THEN
               /\ pc' = "exited"
               /\ ret' = <<[code |-> 1, playlists |-> <<>>]>>
           ELSE IF playlists = <<>> THEN
               /\ pc' = "exited"
               /\ ret' = <<[code |-> 1, playlists |-> <<>>]>>
           ELSE
               /\ pc' = "playlists"
               /\ ret' = <<[code |-> 0, playlists |-> playlists]>>
    /\ UNCHANGED <<fs, tmp, run, kills, pl, todo, cur, loc, orig, startFs, failed, trace,
                   arg, stdout>>

NextStartup == Startup

SpecStartup == InitStartup /\ [][NextStartup]_vars

\* C12 (as stated): the tool exits with a non-zero code only when the media
\* directory is missing or is no directory, and then nothing is processed; a
\* media directory with no playlist directory in it gives exit code zero.
C12_ExitCode ==
    ret # <<>> =>
        /\ arg.kind # "dir" => (pc = "exited" /\ ret[1].code # 0 /\ ret[1].playlists = <<>>)
        /\ arg.kind = "dir" => (pc = "exited" => ret[1].code = 0)

(***************************************************************************)
(* Classification and dispatch in the full model.                          *)
(***************************************************************************)
\* the converter whose steps pc is among, "" when none
ConverterAt ==
    IF pc \in {"static", "static_remove"} THEN "static"
    ELSE IF pc \in {"gif", "gif_frame", "gif_meta", "gif_remove"} THEN "gif"
    ELSE IF pc \in {"video", "video_extract", "video_move", "video_meta",
                    "video_meta_write", "video_remove"} THEN "video"
    ELSE ""

\* a non-hidden file of no supported extension in playlist p of library lib
UnsupportedFile(lib, p, e) ==
    /\ lib[p][e].kind = "file"
    /\ ~StartsWith(e, <<".">>)
    /\ Lower(Suffix(e)) \notin ALL_SUPPORTED

Diagnosed(p, e) == \E i \in 1..Len(stdout) : stdout[i][2] = p /\ stdout[i][3] = e

\* C13 (as stated): the three extension sets are disjoint; the converter at
\* work is the one of the lowercased extension of the entry it works on (a
\* GIF of one frame being passed on to the static converter); a run that
\* reaches its end has handed every non-hidden file of a supported extension
\* to a converter, and has skipped every unsupported file with a diagnostic
\* naming it, left it unchanged and not failed on it.
C13_ClassifyAndDispatch ==
    /\ SUPPORTED_IMAGES \cap SUPPORTED_GIFS = {}
    /\ SUPPORTED_IMAGES \cap SUPPORTED_VIDEOS = {}
    /\ SUPPORTED_GIFS \cap SUPPORTED_VIDEOS = {}
    /\ ConverterAt = "gif" => Lower(Suffix(cur)) \in SUPPORTED_GIFS
    /\ ConverterAt = "video" => Lower(Suffix(cur)) \in SUPPORTED_VIDEOS
    /\ ConverterAt = "static" =>
           \/ Lower(Suffix(cur)) \in SUPPORTED_IMAGES
           \/ Lower(Suffix(cur)) \in SUPPORTED_GIFS /\ fs[pl][cur].n <= 1
    /\ pc = "done" =>
           \A p \in Playlists : \A e \in DOMAIN startFs[p] :
               /\ Eligible(startFs, p, e) => Dispatched(p, e)
               /\ UnsupportedFile(startFs, p, e) =>
                      /\ ~Dispatched(p, e)
                      /\ <<p, e>> \notin failed
                      /\ e \in DOMAIN fs[p] /\ fs[p][e] = startFs[p][e]
                      /\ Diagnosed(p, e)

\* C14: the delay_ms in the meta.txt of a directory made from a GIF is 100
\* when the GIF's duration is absent or zero, and the duration otherwise.
C14_GifDelayDefault ==
    \A p \in Playlists : \A e \in GifSources(p) : \A x \in DirsOf(p, orig[p][e]) :
        fs[p][x].meta.st = "full" =>
            fs[p][x].meta.delay_ms =
                IF orig[p][e].dur \in {-1, 0} THEN 100 ELSE orig[p][e].dur

\* a GIF animation of duration 0 was converted: its meta.txt says 100
C14_Witness ==
    /\ pc = "done"
    /\ A_GIF \in GifSources(1) /\ orig[1][A_GIF].dur = 0 /\ orig[1][A_GIF].n > 1
    /\ A_GIF \notin DOMAIN fs[1]
    /\ \E x \in DirsOf(1, orig[1][A_GIF]) : fs[1][x].meta = Meta(orig[1][A_GIF].n, 100)

\* C15 (as stated): once a run has ended, every still the converter wrote
\* is among the items get_items lists, and for every directory the converter
\* finished, read_meta succeeds and every frame file the playback loop opens
\* for it exists in the directory.
C15_PlayerReadsLayout ==
    pc = "done" =>
        \A p \in Playlists : \A x \in DOMAIN fs[p] :
            Written(fs[p][x]) =>
                IF fs[p][x].kind = "file"
                THEN \E i \in 1..Len(get_items(fs[p])) : get_items(fs[p])[i] = x
                ELSE fs[p][x].meta.st = "full" =>
                         LET m == read_meta(MetaFile(fs[p][x]), DirNames(fs[p][x]))
                         IN  /\ ~m.raises
                             /\ \A i \in PlayerFrames(m.frame_count) :
                                    PlayerFrameName(i) \in DOMAIN fs[p][x].files

(***************************************************************************)
(* read_meta on its own: meta.txt is missing or holds up to MaxLines of the *)
(* lines of MetaLines, in a directory of up to MaxFrames JPEG frame files   *)
(* with or without a PNG frame file.                                       *)
(***************************************************************************)
FRAME_COUNT_NAME == SubSeq(FRAME_COUNT_KEY, 1, Len(FRAME_COUNT_KEY) - 1)

MetaLines ==
    { FRAME_COUNT_KEY \o <<"3", "\n">>,
      DELAY_MS_KEY \o <<"5", "0", "\n">>,
      FRAME_COUNT_KEY \o <<"x", "\n">>,
      FRAME_COUNT_KEY \o <<" ", "3", "\n">>,
      FRAME_COUNT_NAME \o <<" ", "=", "3", "\n">>,
      <<" ">> \o FRAME_COUNT_KEY \o <<"3", " ", "\n">>,
      <<"o", "t", "h", "e", "r", "=", "1", "\n">>,
      <<"\n">> }

MetaTexts ==
    { [exists |-> FALSE, lines |-> <<>>] }
    \cup { [exists |-> TRUE, lines |-> l] :
             l \in UNION { [1..k -> MetaLines] : k \in 0..MaxLines } }

FrameDirs ==
    { { PlayerFrameName(i) : i \in 0..(k - 1) } \cup png :
        k \in 0..MaxFrames, png \in { {}, {FrameName(0)} } }

InitMeta ==
    /\ fs = [p \in Playlists |-> EmptyFn]
    /\ arg \in { [meta |-> t, names |-> d \cup (IF t.exists THEN {META_TXT} ELSE {})] :
                   t \in MetaTexts, d \in FrameDirs }
    /\ pc = "read_meta"
    /\ Unused

CallReadMeta ==
    /\ pc = "read_meta"
    /\ ret = <<>>
    /\ ret' = <<read_meta(arg.meta, arg.names)>>
    /\ UNCHANGED <<fs, tmp, pc, run, kills, pl, todo, cur, loc, orig, startFs, failed,
                   trace, arg, stdout>>

NextMeta == CallReadMeta

SpecMeta == InitMeta /\ [][NextMeta]_vars

\* how a tolerant reader takes a line: key and value around the first "=",
\* blanks around either dropped
HasEq(line) == \E i \in 1..Len(line) : line[i] = "="

KeyOf(line) == Strip(UpToEq(line))

ValueOf(line) == Strip(AfterEq(line))

\* the integers the lines give for a key
ValuesFor(lines, key) ==
    { IntOf(ValueOf(lines[i])).val :
        i \in { j \in 1..Len(lines) :
                  /\ HasEq(lines[j])
                  /\ KeyOf(lines[j]) = key
                  /\ ~IntOf(ValueOf(lines[j])).raises } }

\* no line of a known key has blanks inside it or a value that is no integer
CleanLines(lines) ==
    \A i \in 1..Len(lines) :
        (HasEq(lines[i]) /\ KeyOf(lines[i]) \in {FRAME_COUNT_NAME, <<"d", "e", "l", "a", "y", "_", "m", "s">>}) =>
            /\ UpToEq(Strip(lines[i])) = KeyOf(lines[i])
            /\ AfterEq(Strip(lines[i])) = ValueOf(lines[i])
            /\ ~IntOf(ValueOf(lines[i])).raises

JpegFrames(names) ==
    Cardinality({ f \in names : StartsWith(f, FRAME_PREFIX) /\ EndsWith(f, JPG_EXT) })

\* C16 (as stated): read_meta never fails; without meta.txt it returns the
\* number of frame files and 100; with a meta.txt that gives no integer
\* frame_count (no such key, a value that is no integer) it returns the
\* number of frame files, never 0 in place of it; a line with blanks around
\* the key or the "=" is read as its value or counts as unreadable; well
\* formed lines give their values in either order, other keys being ignored;
\* delay_ms is 100 when the file gives none.
C16_ReadMetaFallback ==
    ret # <<>> =>
        LET r      == ret[1]
            lines  == arg.meta.lines
            count  == JpegFrames(arg.names)
            fcs    == ValuesFor(lines, FRAME_COUNT_NAME)
            delays == ValuesFor(lines, <<"d", "e", "l", "a", "y", "_", "m", "s">>)
            loose  == ~CleanLines(lines)
        IN  /\ ~r.raises
            /\ ~arg.meta.exists => (r.frame_count = count /\ r.delay_ms = 100)
            /\ arg.meta.exists =>
                   /\ r.frame_count \in
                          IF fcs = {} THEN {count}
                          ELSE fcs \cup (IF loose THEN {count} ELSE {})
                   /\ r.delay_ms \in
                          IF delays = {} THEN {100}
                          ELSE delays \cup (IF loose THEN {100} ELSE {})

\* an entry the run found at its start and must leave alone: hidden, or a
\* directory
LeftAlone(p, e) == StartsWith(e, <<".">>) \/ startFs[p][e].kind = "dir"

\* C17: within one run no entry is handed to a converter twice; an entry is
\* handed on as the file it was when the run started, so nothing the run
\* made is; and hidden entries and directories, converted animations or
\* not, are never handed on and stay as they were.
C17_NoItemTwice ==
    /\ \A i, j \in 1..Len(trace) : trace[i] = trace[j] => i = j
    /\ \A i \in 1..Len(trace) :
           /\ trace[i][2] \in DOMAIN startFs[trace[i][1]]
           /\ startFs[trace[i][1]][trace[i][2]].kind = "file"
    /\ pc \in {"static", "gif", "video"} =>
           (cur \in DOMAIN fs[pl] /\ fs[pl][cur] = startFs[pl][cur])
    /\ \A p \in Playlists : \A e \in DOMAIN startFs[p] :
           LeftAlone(p, e) =>
               /\ ~Dispatched(p, e)
               /\ e \in DOMAIN fs[p]
               /\ fs[p][e] = startFs[p][e]

\* a run ended that converted two entries next to a converted animation
\* directory and the hidden file, and made something new in playlist 1
C17_Witness ==
    /\ pc = "done"
    /\ Len(trace) >= 2
    /\ A_DIR \in DOMAIN startFs[1] /\ is_converted_anim_dir(startFs[1], A_DIR)
    /\ HIDDEN_JPG \in DOMAIN fs[2]
    /\ DOMAIN fs[1] \ DOMAIN startFs[1] # {}

(***************************************************************************)
(* The renumbering of convert_video on its own: the transcoder emitted the  *)
(* frames 1..k, for k up to MaxEmitted and for k at the first number wider  *)
(* than the pattern; frame x of them is moved to its place.                *)
(***************************************************************************)
Emitted ==
    { <<k, x>> : k \in 1..MaxEmitted, x \in 1..MaxEmitted } \cup
    { <<PadOverflow, x>> :
        x \in { 1, PadOverflow \div 10 - 1, PadOverflow \div 10, PadOverflow \div 10 + 1,
                PadOverflow - 1, PadOverflow } }

InitRenumber ==
    /\ fs = [p \in Playlists |-> EmptyFn]
    /\ arg \in { a \in Emitted : a[2] <= a[1] }
    /\ pc = "renumber"
    /\ Unused

\* the turn of the move loop that moves the transcoder's frame arg[2]: the
\* number its file gets in the frame directory
MoveFrame ==
    /\ pc = "renumber"
    /\ ret = <<>>
    /\ ret' = <<FinalIndex(arg[1], arg[2])>>
    /\ UNCHANGED <<fs, tmp, pc, run, kills, pl, todo, cur, loc, orig, startFs, failed,
                   trace, arg, stdout>>

NextRenumber == MoveFrame

SpecRenumber == InitRenumber /\ [][NextRenumber]_vars

\* C18 (as stated): of k frames emitted, the (i+1)-th becomes frame file i,
\* a number out of 0..k-1, also when the transcoder's numbers are wider than
\* its pattern.
C18_VideoRenumbering ==
    ret # <<>> => (ret[1] = arg[2] - 1 /\ ret[1] \in 0..(arg[1] - 1))

\* what a step may do to entry e of playlist p that exists before it: leave
\* it as it is; remove it, when it is the source under conversion; re-encode
\* it over itself, when it is the .png under static conversion; or add to
\* it, when it is the frame directory the conversion under way made
StepKeeps(p, e) ==
    \/ e \in DOMAIN fs'[p] /\ fs'[p][e] = fs[p][e]
    \/ /\ p = pl /\ e = cur /\ ConverterAt # ""
       /\ e \notin DOMAIN fs'[p]
    \/ /\ p = pl /\ e = cur /\ pc = "static"
       /\ Lower(Suffix(e)) = PNG_EXT
       /\ e \in DOMAIN fs'[p]
       /\ fs'[p][e].kind = "file" /\ Written(fs'[p][e])
       /\ fs'[p][e].src = <<SrcOf(fs[p][e]), 0>>
    \/ /\ p = pl /\ e = loc.dir /\ ConverterAt \in {"gif", "video"}
       /\ e \in DOMAIN fs'[p]
       /\ fs'[p][e].kind = "dir"

\* C19: every step of a run leaves every existing entry of every playlist
\* as it is, but for the source under conversion, which it may remove, a
\* .png under static conversion, which it may re-encode over itself, and the
\* frame directory the conversion under way created; so a conversion writes
\* only to paths that did not exist when it started.
C19_WritesOnlyNewPaths ==
    [][\A p \in Playlists : \A e \in DOMAIN fs[p] : StepKeeps(p, e)]_vars

\* a.jpg was converted next to a.png, which is as it was: the output is
\* a_1.png
C19_Witness ==
    /\ pc = "done"
    /\ A_JPG \in DOMAIN orig[1] /\ A_PNG \in DOMAIN orig[1]
    /\ A_JPG \notin DOMAIN fs[1]
    /\ fs[1][A_PNG] = orig[1][A_PNG]
    /\ <<"a", "_", "1">> \o PNG_EXT \in DOMAIN fs[1]
    /\ fs[1][<<"a", "_", "1">> \o PNG_EXT].src = <<orig[1][A_JPG].id, 0>>

\* the conversion of the video cur has just failed in the transcoder: ffmpeg
\* exited non-zero, and nothing else went wrong (no kill, a usable frame rate)
TranscoderFailed ==
    /\ pc = "crashed"
    /\ kills = 0
    /\ cur \in VideoNames
    /\ cur \in DOMAIN orig[pl] /\ cur \in DOMAIN fs[pl]
    /\ orig[pl][cur].badAt = 0
    /\ ~DelayRaises(TargetFps(ProbeFps(orig[pl][cur].probe)))

\* C20 (as stated): after a video conversion failed in the transcoder, the
\* playlist holds nothing made from that video: no frame directory, empty or
\* partial, so that runs over a video that keeps failing do not pile up
\* stem, stem_1, ...
C20_FailedVideoLeavesNothing ==
    TranscoderFailed => MadeFrom(pl, cur) = {}

\* two runs over a video that keeps failing have left two directories
C20_Accumulated ==
    TranscoderFailed /\ Cardinality(MadeFrom(pl, cur)) >= 2

(***************************************************************************)
(* The playback loop of the player (src/app/__init__.py, main).  fs is the  *)
(* media directory as a sequence of up to MaxPlaylists playlists in sorted *)
(* order; loc holds main's locals; pc is the place in the loop: the five   *)
(* button tests in the order of the code, then the rendering.  The clock   *)
(* is not modelled: whether a press passes debounced() and whether the     *)
(* overlay has expired are inputs.                                         *)
(***************************************************************************)
MaxPlaylists == 2

Still == [kind |-> "file"]

AnimDir(meta, names) == [kind |-> "dir", meta |-> meta, names |-> names]

\* the animation directories of the media: meta.txt of three frames, no
\* meta.txt and two frame files, an empty meta.txt, a frame_count no int
AnimDirs ==
    { AnimDir([exists |-> TRUE,
               lines |-> << FRAME_COUNT_KEY \o <<"3", "\n">>,
                            DELAY_MS_KEY \o <<"5", "0", "\n">> >>],
              { PlayerFrameName(i) : i \in 0..2 } \cup {META_TXT}),
      AnimDir([exists |-> FALSE, lines |-> <<>>],
              { PlayerFrameName(i) : i \in 0..1 }),
      AnimDir([exists |-> TRUE, lines |-> <<>>], {META_TXT}),
      AnimDir([exists |-> TRUE, lines |-> << FRAME_COUNT_KEY \o <<"x", "\n">> >>],
              {META_TXT}) }

\* a playlist directory: a hidden file and a text file, with or without the
\* still a.jpg and the animation directory a
PlayerPlaylists ==
    { [e \in {HIDDEN_JPG, B_TXT} \cup still \cup anim |->
          IF e = A_DIR THEN d ELSE Still] :
        still \in { {}, {A_JPG} }, anim \in { {}, {A_DIR} }, d \in AnimDirs }

MediaDirs == UNION { [1..n -> PlayerPlaylists] : n \in 0..MaxPlaylists }

\* a % b of Python for b > 0
PyMod(a, b) == ((a % b) + b) % b

NoPath == <<>>

\* current_path(): the item shown, None when the playlist has no item
current_path(l) == IF l.items = <<>> THEN NoPath ELSE l.items[l.item_idx + 1]

\* is_animation(path)
is_animation(l, path) ==
    /\ path # NoPath
    /\ path \in DOMAIN fs[l.playlist_idx + 1]
    /\ fs[l.playlist_idx + 1][path].kind = "dir"

\* as load_item, leaving paused as it is
load_item_KeepsPaused(l) ==
    LET path == current_path(l)
        l0   == [l EXCEPT !.anim_frame = 0]
    IN  IF is_animation(l, path)
        THEN LET node == fs[l.playlist_idx + 1][path]
                 m    == read_meta(node.meta, node.names)
             IN  IF m.raises THEN [raises |-> TRUE, loc |-> l0]
                 ELSE [raises |-> FALSE,
                       loc |-> [l0 EXCEPT !.anim_count = m.frame_count,
                                          !.anim_delay = m.delay_ms,
                                          !.needs_redraw = TRUE]]
        ELSE [raises |-> FALSE,
              loc |-> [l0 EXCEPT !.anim_count = 0, !.anim_delay = PlayerDefaultDelay,
                                 !.needs_redraw = TRUE]]

\* load_item(): the locals after it, and whether read_meta raised on the way
load_item(l) ==
    LET path == current_path(l)
        l0   == [l EXCEPT !.anim_frame = 0, !.paused = FALSE]
    IN  IF is_animation(l, path)
        THEN LET node == fs[l.playlist_idx + 1][path]
                 m    == read_meta(node.meta, node.names)
             IN  IF m.raises THEN [raises |-> TRUE, loc |-> l0]
                 ELSE [raises |-> FALSE,
                       loc |-> [l0 EXCEPT !.anim_count = m.frame_count,
                                          !.anim_delay = m.delay_ms,
                                          !.needs_redraw = TRUE]]
        ELSE [raises |-> FALSE,
              loc |-> [l0 EXCEPT !.anim_count = 0, !.anim_delay = PlayerDefaultDelay,
                                 !.needs_redraw = TRUE]]

\* switch_playlist(new_idx)
switch_playlist(l, new_idx) ==
    load_item([l EXCEPT !.playlist_idx = new_idx,
                        !.items = get_items(fs[new_idx + 1]),
                        !.item_idx = 0,
                        !.show_overlay = TRUE])

ButtonTests == <<"btn_a", "btn_c", "btn_b", "btn_up", "btn_down">>

\* the place in the loop after the place at
AfterPlace(at) ==
    CASE at = "btn_a" -> "btn_c"
      [] at = "btn_c" -> "btn_b"
      [] at = "btn_b" -> "btn_up"
      [] at = "btn_up" -> "btn_down"
      [] at = "btn_down" -> "render"
      [] OTHER -> "btn_a"

PlayerRest == <<fs, tmp, run, kills, pl, todo, cur, orig, startFs, failed, trace, arg,
                ret, stdout>>

InitPlayer ==
    /\ fs \in MediaDirs
    /\ pc = "start"
    /\ loc = NoLoc
    /\ tmp = EmptyFn
    /\ run = 0
    /\ kills = 0
    /\ pl = 0
    /\ todo = <<>>
    /\ cur = <<>>
    /\ orig = fs
    /\ startFs = fs
    /\ failed = {}
    /\ trace = <<>>
    /\ arg = <<>>
    /\ ret = <<>>
    /\ stdout = <<>>

\* main() up to the loop: without a playlist it shows "No media found" and
\* sleeps for ever; else the first playlist's items and the initial load
StartPlayer ==
    /\ pc = "start"
    /\ IF Len(fs) = 0
       THEN /\ pc' = "no_media"
            /\ UNCHANGED loc
       ELSE LET r == load_item([playlist_idx |-> 0, items |-> get_items(fs[1]),
                                item_idx |-> 0, anim_frame |-> 0, anim_count |-> 0,
                                anim_delay |-> PlayerDefaultDelay, paused |-> FALSE,
                                show_overlay |-> TRUE, needs_redraw |-> TRUE])
            IN  /\ loc' = r.loc
                /\ pc' = IF r.raises THEN "crashed" ELSE "btn_a"
    /\ UNCHANGED PlayerRest

\* a button test that is false: not pressed, or within DEBOUNCE_MS of the last
SkipButton ==
    /\ \E i \in 1..Len(ButtonTests) : pc = ButtonTests[i]
    /\ pc' = AfterPlace(pc)
    /\ UNCHANGED loc
    /\ UNCHANGED PlayerRest

\* the item step of buttons A (by = -1) and C (by = 1)
ItemStep(at, by) ==
    /\ pc = at
    /\ IF loc.items # <<>>
       THEN LET r == load_item([loc EXCEPT
                                  !.item_idx = PyMod(loc.item_idx + by, Len(loc.items))])
            IN  /\ loc' = r.loc
                /\ pc' = IF r.raises THEN "crashed" ELSE AfterPlace(at)
       ELSE /\ loc' = loc
            /\ pc' = AfterPlace(at)
    /\ UNCHANGED PlayerRest

PressA == ItemStep("btn_a", -1)

PressC == ItemStep("btn_c", 1)

\* button B
PressB ==
    /\ pc = "btn_b"
    /\ loc' = IF is_animation(loc, current_path(loc))
              THEN [loc EXCEPT !.paused = ~loc.paused]
              ELSE loc
    /\ pc' = AfterPlace(pc)
    /\ UNCHANGED PlayerRest

\* the playlist step of buttons UP (by = -1) and DOWN (by = 1)
PlaylistStep(at, by) ==
    /\ pc = at
    /\ LET r == switch_playlist(loc, PyMod(loc.playlist_idx + by, Len(fs)))
       IN  /\ loc' = r.loc
           /\ pc' = IF r.raises THEN "crashed" ELSE AfterPlace(at)
    /\ UNCHANGED PlayerRest

PressUp == PlaylistStep("btn_up", -1)

PressDown == PlaylistStep("btn_down", 1)

\* the rendering at the end of a turn of the loop; expired says whether the
\* overlay's time is over
Render ==
    /\ pc = "render"
    /\ LET path == current_path(loc)
       IN  IF path = NoPath THEN UNCHANGED loc
           ELSE IF is_animation(loc, path)
           THEN IF ~loc.paused \/ loc.needs_redraw
                THEN loc' = [loc EXCEPT
                               !.needs_redraw = FALSE,
                               !.anim_frame =
                                   IF ~loc.paused
                                   THEN PyMod(loc.anim_frame + 1,
                                              IF loc.anim_count >= 1 THEN loc.anim_count
                                              ELSE 1)
                                   ELSE loc.anim_frame]
                ELSE UNCHANGED loc
           ELSE \E expired \in BOOLEAN :
                    LET drawn == [loc EXCEPT !.needs_redraw = FALSE]
                    IN  loc' = IF drawn.show_overlay /\ expired
                               THEN [drawn EXCEPT !.show_overlay = FALSE,
                                                  !.needs_redraw = TRUE]
                               ELSE drawn
    /\ pc' = AfterPlace(pc)
    /\ UNCHANGED PlayerRest

NextPlayer ==
    \/ StartPlayer
    \/ SkipButton
    \/ PressA
    \/ PressC
    \/ PressB
    \/ PressUp
    \/ PressDown
    \/ Render

SpecPlayer == InitPlayer /\ [][NextPlayer]_vars

\* the player is in its loop
InLoop == pc \in {"btn_a", "btn_c", "btn_b", "btn_up", "btn_down", "render"}

\* the indices are in range: the playlist, the item when there is one, and
\* the frame within 0..max(anim_count, 1) - 1
IndicesInRange ==
    /\ loc.playlist_idx \in 0..(Len(fs) - 1)
    /\ loc.items # <<>> => loc.item_idx \in 0..(Len(loc.items) - 1)
    /\ loc.anim_frame \in PlayerFrames(loc.anim_count)

\* a step that changes the item or the playlist leaves anim_frame 0 and
\* paused false
ChangeResets ==
    (\/ loc'.playlist_idx # loc.playlist_idx
     \/ loc'.item_idx # loc.item_idx
     \/ loc'.items # loc.items)
        => (loc'.anim_frame = 0 /\ ~loc'.paused)

\* paused turns true only by B on an animation, and B on anything else
\* leaves it
PauseOnlyByB ==
    /\ (~loc.paused /\ loc'.paused) =>
           (pc = "btn_b" /\ is_animation(loc, current_path(loc)))
    /\ (pc = "btn_b" /\ ~is_animation(loc, current_path(loc))) =>
           loc'.paused = loc.paused

\* the rendering of a paused animation leaves anim_frame
PausedHolds ==
    (pc = "render" /\ loc.paused) => loc'.anim_frame = loc.anim_frame

\* C21: in the playback loop, after any presses and frame ticks, playlist_idx,
\* item_idx and anim_frame are in range; every step that changes the item or
\* the playlist resets anim_frame to 0 and paused to false; paused is toggled
\* by B only on an animation; anim_frame does not advance while paused.
C21_PlaybackLoopState ==
    /\ [](InLoop => IndicesInRange)
    /\ [][(InLoop /\ pc' # pc) => (ChangeResets /\ PauseOnlyByB /\ PausedHolds)]_vars

\* the second playlist's animation, paused on its third frame
C21_Witness ==
    /\ InLoop
    /\ loc.playlist_idx = 1
    /\ loc.paused
    /\ loc.anim_frame = 2
    /\ is_animation(loc, current_path(loc))

=============================================================================
